---- MODULE Spec2Model ----
(***************************************************************************)
(* The Codeforces cog of the TLE Discord bot (tle/cogs/codeforces.py):     *)
(* the commands gitgud, rating and solved, each an asyncio task that       *)
(* suspends at every await self.query_api(...), and the module-global    *)
(* pyplot figure the two plotting commands draw on.                        *)
(*                                                                         *)
(* Encoding of Python values:                                              *)
(*   - an optional value (dict key that may be absent, or None) is a       *)
(*     sequence of length 0 or 1;                                          *)
(*   - a str built by format()/f-string is the tuple of its pieces;        *)
(*   - an API comment string is the sequence of its words;                 *)
(*   - the unordered list made from a Python set is a bag.                 *)
(***************************************************************************)
EXTENDS Integers, Sequences, FiniteSets, Bags, TLC

VARIABLES
    cmd,              \* per task: the command invoked
    handles,          \* per task: the handles argument(s)
    pc,               \* per task: where the coroutine is suspended
    respjson,         \* per task: the response in hand: respjson, contestjson of gitgud
    rate,             \* per task: local rate of rating
    allratings,       \* per task: local allratings of solved
    probjson,         \* per task: local probjson of gitgud
    infojson,         \* per task: local infojson of gitgud
    subsjson,         \* per task: local subsjson of gitgud
    recommendations,  \* per task: local recommendations of gitgud
    choice,           \* per task: the (name, rating) drawn by random.choice
    plt,              \* the current figure of matplotlib.pyplot (module global)
    sent,             \* per task: what ctx.send has sent, in order
    reqs,             \* per task: the API requests issued, in order
    pin,              \* input of the pure function under check
    pout              \* its output

vars == <<cmd, handles, pc, respjson, rate, allratings, probjson, infojson,
          subsjson, recommendations, choice, plt, sent, reqs, pin, pout>>

taskvars == <<cmd, handles, pc, respjson, rate, allratings, probjson, infojson,
              subsjson, recommendations, choice, plt, sent, reqs>>

(***************************************************************************)
(* Bounds of the model.                                                    *)
(***************************************************************************)
NumTasks == 2
MaxArgs == 6
MaxContests == 2
MaxSubs == 2
MaxCommentWords == 3
MaxRatingInput == 1700
MaxNegRating == 150
MaxBinInput == 3900

Tasks == 1..NumTasks

(***************************************************************************)
(* Small helpers.                                                          *)
(***************************************************************************)
Last(s) == s[Len(s)]

SeqsUpTo(S, n) == UNION {[1..k -> S] : k \in 0..n}

SetMin(S) == CHOOSE x \in S : \A y \in S : x <= y

SetMax(S) == CHOOSE x \in S : \A y \in S : x >= y

\* (sub in s) for Python strings
Contains(s, sub) ==
    \E k \in 1..(Len(s) - Len(sub) + 1) : SubSeq(s, k, k + Len(sub) - 1) = sub

\* list(range(start, stop, step)) for step > 0
PyRange(start, stop, step) ==
    [k \in 1..(IF stop > start THEN (stop - start + step - 1) \div step ELSE 0)
        |-> start + (k - 1) * step]

(***************************************************************************)
(* JSON values returned by query_api.  None is the value of the except     *)
(* branch; a decoded object has "status" and either "result" or "comment". *)
(***************************************************************************)
NoneJson == [status |-> "None", comment |-> <<>>, result |-> <<>>]

Unbound == [status |-> "unbound", comment |-> <<>>, result |-> <<>>]

OkJson(result) == [status |-> "OK", comment |-> <<>>, result |-> result]

FailedJson(comment) == [status |-> "FAILED", comment |-> comment, result |-> <<>>]

IsNone(json) == json.status = "None"

\* json['result'] raises TypeError on None and KeyError on a FAILED object
HasResult(json) == json.status = "OK"

API_BASE_URL == "http://codeforces.com/api/"

CNT_BASE_URL == "http://codeforces.com/contest/"

\* the GET that query_api issues
Request(path, params) == [url |-> <<API_BASE_URL, path>>, params |-> params]

(***************************************************************************)
(* gitgud: round_rating and the rating bucket.                             *)
(***************************************************************************)
round_rating_floor(rating) == rating - (rating % 100)

round_rating(rating) ==
    LET rem == rating % 100
        floored == rating - rem
    IN  IF rem >= 50 THEN floored + 100 ELSE floored

\* user_rating = infojson['result'][0].get('rating'); None -> 500; round_rating
UserBucket(info) ==
    LET user_rating == info.result[1].rating
    IN  round_rating(IF user_rating = <<>> THEN 500 ELSE user_rating[1])

(***************************************************************************)
(* solved: the histogram bins.                                             *)
(***************************************************************************)
histbins_exclusive(nhandles) ==
    LET step == IF nhandles = 1 THEN 100 ELSE 200
    IN  PyRange(500, 3800, step)

histbins(nhandles) ==
    LET step == IF nhandles = 1 THEN 100 ELSE 200
    IN  PyRange(500, 3800 + step, step)

\* the bins of plt.hist that receive value x: half-open, the last one closed
BinsOf(bins, x) ==
    {b \in 1..(Len(bins) - 1) :
        /\ bins[b] <= x
        /\ \/ x < bins[b + 1]
           \/ b = Len(bins) - 1 /\ x = bins[b + 1]}

(***************************************************************************)
(* What the Codeforces API may answer (the inputs of the commands).        *)
(***************************************************************************)
Roster == <<"tourist", "Petr", "_kun">>

\* argument lists of n handles: the roster, cyclically, from each start
HandleList(n, k) == [j \in 1..n |-> Roster[((j + k) % Len(Roster)) + 1]]

ArgLists == {HandleList(n, k) : n \in 0..MaxArgs, k \in 0..(Len(Roster) - 1)}

\* the k-th rated contest of a user: a RatingChange object of user.rating
RatingChange(k) ==
    [contestId |-> k,
     newRating |-> 1400 + 150 * k,
     ratingUpdateTimeSeconds |-> 1550000000 + 604800 * k]

RatingHistories == {[k \in 1..n |-> RatingChange(k)] : n \in 0..MaxContests}

Words == {"not", "found", "limit"}

Comments == SeqsUpTo(Words, MaxCommentWords)

Failures == {NoneJson} \cup {FailedJson(c) : c \in Comments}

UserRatingResponses == Failures \cup {OkJson(h) : h \in RatingHistories}

\* Submission objects of user.status: the problem's rating may be absent
Submission(name, rating, verdict) ==
    [verdict |-> verdict, problem |-> [name |-> name, rating |-> rating]]

Submissions ==
    {Submission(n, <<500>>, v) : n \in {"A", "B"}, v \in {"OK", "WRONG_ANSWER"}}
    \cup {Submission("A", r, "OK") : r \in {<<>>, <<0>>}}

UserStatusResponses == Failures \cup {OkJson(s) : s \in SeqsUpTo(Submissions, MaxSubs)}

(***************************************************************************)
(* matplotlib.pyplot: the current figure is module-global state.           *)
(***************************************************************************)
NoFigure ==
    [lines |-> <<>>, spans |-> <<>>, ylim |-> <<>>, legend |-> <<>>,
     hist |-> <<>>, title |-> "", xlabel |-> "", ylabel |-> ""]

\* plt.clf()
clf(fig) == NoFigure

\* plt.plot(x, y)
plot(fig, x, y) == [fig EXCEPT !.lines = Append(@, [x |-> x, y |-> y])]

\* plt.gca().get_ylim(): the set limits, else the range of the plotted data
\* (margins left out), else the default axes
get_ylim(fig) ==
    LET ys == UNION {{l.y[k] : k \in 1..Len(l.y)} : l \in {fig.lines[j] : j \in 1..Len(fig.lines)}}
    IN  IF fig.ylim # <<>> THEN fig.ylim
        ELSE IF ys = {} THEN <<0, 1>>
        ELSE <<SetMin(ys), SetMax(ys)>>

colors ==
    << <<"#AA0000", 3000, 4000>>,
       <<"#FF3333", 2600, 3000>>,
       <<"#FF7777", 2400, 2600>>,
       <<"#FFBB55", 2300, 2400>>,
       <<"#FFCC88", 2100, 2300>>,
       <<"#FF88FF", 1900, 2100>>,
       <<"#AAAAFF", 1600, 1900>>,
       <<"#77DDBB", 1400, 1600>>,
       <<"#77FF77", 1200, 1400>>,
       <<"#CCCCCC", 0, 1200>> >>

zero_width_space == "\\u200b"

\* datetime.datetime.fromtimestamp(seconds), as (day, second of the day)
fromtimestamp(seconds) == [day |-> seconds \div 86400, second |-> seconds % 86400]

\* get_current_figure_as_file(): savefig to a temporary file, read it back
get_current_figure_as_file(fig) == [filename |-> "plot.png", image |-> fig]

(***************************************************************************)
(* ctx.send                                                                *)
(***************************************************************************)
Text(content) == [content |-> content, embed |-> <<>>, file |-> <<>>]

FileMessage(file) == [content |-> <<>>, embed |-> <<>>, file |-> <<file>>]

EmbedMessage(content, embed) == [content |-> content, embed |-> <<embed>>, file |-> <<>>]

HandleCountMessage == Text(<<"Number of handles must be between 1 and 5">>)

ConnectionMessage == Text(<<"Error connecting to Codeforces API">>)

\* a handle between backquotes, as in the f-strings of the replies
Backquoted(handle) == <<"backquote", handle, "backquote">>

NotFoundMessage(handle) == Text(<<"Handle not found: ", Backquoted(handle)>>)

DeniedMessage ==
    Text(<<"Codeforces API denied the request, please make sure handles are valid.">>)

\* an exception nobody catches ends the command's task: nothing is sent
Raise_reported(t) ==
    /\ pc' = [pc EXCEPT ![t] = "done"]
    /\ sent' = [sent EXCEPT ![t] = Append(@, ConnectionMessage)]

Raise(t) ==
    /\ pc' = [pc EXCEPT ![t] = "faulted"]
    /\ UNCHANGED sent

(***************************************************************************)
(* rating and solved: the checks both commands make.                       *)
(***************************************************************************)
\* not handles or len(handles) > 5
BadHandleCount_off_by_one(hs) == Len(hs) = 0 \/ Len(hs) > 6

BadHandleCount(hs) == Len(hs) = 0 \/ Len(hs) > 5

\* 'not found' in respjson['comment']
CommentSaysNotFound_loose(comment) == Contains(comment, <<"found">>)

CommentSaysNotFound(comment) == Contains(comment, <<"not", "found">>)

\* the response ends the command: respjson is None, or status FAILED
Aborts_only_failed(json) == json.status = "FAILED"

Aborts(json) == IsNone(json) \/ json.status = "FAILED"

\* the message sent for a response that ends the command
ErrorReply(json, handle) ==
    IF IsNone(json) THEN ConnectionMessage
    ELSE IF CommentSaysNotFound(json.comment) THEN NotFoundMessage(handle)
    ELSE DeniedMessage

(***************************************************************************)
(* rating                                                                  *)
(***************************************************************************)
\* lines 122-141: the tier bands under the frozen y range, and the legend
rating_chart(fig, hs, rt) ==
    LET ylim == get_ylim(fig)
        n == IF Len(hs) < Len(rt) THEN Len(hs) ELSE Len(rt)
        labels == [k \in 1..n |-> <<zero_width_space, hs[k], " (", rt[k], ")">>]
    IN  [fig EXCEPT !.spans = @ \o colors, !.ylim = ylim, !.legend = labels]

\* the top of the for loop with rt collected so far and json the last response:
\* the next request, or, after the last handle, the chart and its upload.
\* respjson is rebound by the next await and not read before: the model
\* forgets it when the loop goes round
rating_loop(t, fig, rt, json) ==
    IF Len(rt) < Len(handles[t])
    THEN /\ plt' = fig
         /\ respjson' = [respjson EXCEPT ![t] = Unbound]
         /\ reqs' = [reqs EXCEPT ![t] =
                Append(@, Request("user.rating", [handle |-> handles[t][Len(rt) + 1]]))]
         /\ pc' = [pc EXCEPT ![t] = "await_user_rating"]
         /\ UNCHANGED sent
    ELSE LET chart == rating_chart(fig, handles[t], rt)
         IN  /\ plt' = chart
             /\ sent' = [sent EXCEPT ![t] =
                    Append(@, FileMessage(get_current_figure_as_file(chart)))]
             /\ pc' = [pc EXCEPT ![t] = "done"]
             /\ respjson' = [respjson EXCEPT ![t] = json]
             /\ UNCHANGED reqs

\* lines 93-100: the command runs up to its first await
rating_begin(t) ==
    /\ cmd[t] = "rating"
    /\ pc[t] = "start"
    /\ IF BadHandleCount(handles[t])
       THEN /\ sent' = [sent EXCEPT ![t] = Append(@, HandleCountMessage)]
            /\ pc' = [pc EXCEPT ![t] = "done"]
            /\ UNCHANGED <<plt, reqs, respjson, rate>>
       ELSE /\ rate' = [rate EXCEPT ![t] = <<>>]
            /\ rating_loop(t, clf(plt), <<>>, respjson[t])
    /\ UNCHANGED <<cmd, handles, allratings, probjson, infojson, subsjson,
                   recommendations, choice, pin, pout>>

\* lines 100-121 and on: query_api returns json, the command runs to its next await
rating_resume(t, json) ==
    /\ cmd[t] = "rating"
    /\ pc[t] = "await_user_rating"
    /\ LET handle == handles[t][Len(rate[t]) + 1]
           contests == json.result
           ratings == [k \in 1..Len(contests) |-> contests[k].newRating]
           times == [k \in 1..Len(contests) |->
                        fromtimestamp(contests[k].ratingUpdateTimeSeconds)]
           fig == plot(plt, times, ratings)
       IN  IF Aborts(json)
           THEN /\ sent' = [sent EXCEPT ![t] = Append(@, ErrorReply(json, handle))]
                /\ pc' = [pc EXCEPT ![t] = "done"]
                /\ respjson' = [respjson EXCEPT ![t] = json]
                /\ UNCHANGED <<plt, rate, reqs>>
           ELSE IF ratings = <<>>
           THEN \* ratings[-1] raises IndexError, after the empty line was plotted
                /\ plt' = fig
                /\ Raise(t)
                /\ respjson' = [respjson EXCEPT ![t] = json]
                /\ UNCHANGED <<rate, reqs>>
           ELSE /\ rate' = [rate EXCEPT ![t] = Append(@, Last(ratings))]
                /\ rating_loop(t, fig, Append(rate[t], Last(ratings)), json)
    /\ UNCHANGED <<cmd, handles, allratings, probjson, infojson, subsjson,
                   recommendations, choice, pin, pout>>

(***************************************************************************)
(* solved                                                                  *)
(***************************************************************************)
\* `if rating:` on problem.get('rating')
HasRating(rating) == rating # <<>> /\ rating[1] # 0

\* lines 169-177: the set of (name, rating) of the accepted submissions
SolvedProblems(submissions) ==
    {<<s.problem.name, s.problem.rating[1]>> :
        s \in {submissions[k] : k \in
                {j \in 1..Len(submissions) :
                    /\ submissions[j].verdict = "OK"
                    /\ HasRating(submissions[j].problem.rating)}}}

\* line 179: the ratings of a set of problems, in the set's arbitrary order
RatingsOf(problems) ==
    [r \in {p[2] : p \in problems} |-> Cardinality({p \in problems : p[2] = r})]

\* lines 183-197: the histogram drawn on the cleared figure
solved_chart(fig, hs, allr) ==
    LET n == IF Len(hs) < Len(allr) THEN Len(hs) ELSE Len(allr)
        labels == [k \in 1..n |->
                      <<zero_width_space, hs[k], ": ", BagCardinality(allr[k])>>]
    IN  [clf(fig) EXCEPT
            !.hist = <<[x |-> allr, bins |-> histbins(Len(hs)), label |-> labels]>>,
            !.title = "Histogram of problems solved on Codeforces",
            !.xlabel = "Problem rating",
            !.ylabel = "Number solved",
            !.legend = labels]

\* the top of the for loop, as in rating
solved_loop(t, allr, json) ==
    IF Len(allr) < Len(handles[t])
    THEN /\ respjson' = [respjson EXCEPT ![t] = Unbound]
         /\ reqs' = [reqs EXCEPT ![t] =
                Append(@, Request("user.status", [handle |-> handles[t][Len(allr) + 1]]))]
         /\ pc' = [pc EXCEPT ![t] = "await_user_status"]
         /\ UNCHANGED <<plt, sent>>
    ELSE LET chart == solved_chart(plt, handles[t], allr)
         IN  /\ plt' = chart
             /\ sent' = [sent EXCEPT ![t] =
                    Append(@, FileMessage(get_current_figure_as_file(chart)))]
             /\ pc' = [pc EXCEPT ![t] = "done"]
             /\ respjson' = [respjson EXCEPT ![t] = json]
             /\ UNCHANGED reqs

\* lines 148-155
solved_begin(t) ==
    /\ cmd[t] = "solved"
    /\ pc[t] = "start"
    /\ IF BadHandleCount(handles[t])
       THEN /\ sent' = [sent EXCEPT ![t] = Append(@, HandleCountMessage)]
            /\ pc' = [pc EXCEPT ![t] = "done"]
            /\ UNCHANGED <<plt, reqs, respjson, allratings>>
       ELSE /\ allratings' = [allratings EXCEPT ![t] = <<>>]
            /\ solved_loop(t, <<>>, respjson[t])
    /\ UNCHANGED <<cmd, handles, rate, probjson, infojson, subsjson,
                   recommendations, choice, pin, pout>>

\* lines 155-199
solved_resume(t, json) ==
    /\ cmd[t] = "solved"
    /\ pc[t] = "await_user_status"
    /\ LET handle == handles[t][Len(allratings[t]) + 1]
           ratings == RatingsOf(SolvedProblems(json.result))
       IN  IF Aborts(json)
           THEN /\ sent' = [sent EXCEPT ![t] = Append(@, ErrorReply(json, handle))]
                /\ pc' = [pc EXCEPT ![t] = "done"]
                /\ respjson' = [respjson EXCEPT ![t] = json]
                /\ UNCHANGED <<plt, allratings, reqs>>
           ELSE /\ allratings' = [allratings EXCEPT ![t] = Append(@, ratings)]
                /\ solved_loop(t, Append(allratings[t], ratings), json)
    /\ UNCHANGED <<cmd, handles, rate, probjson, infojson, subsjson,
                   recommendations, choice, pin, pout>>

(***************************************************************************)
(* gitgud                                                                  *)
(***************************************************************************)
\* Problem objects of problemset.problems: rating and contestId may be absent
Problem(name, rating, tags, contestId, index) ==
    [name |-> name, rating |-> rating, tags |-> tags, contestId |-> contestId,
     index |-> index]

Catalogue ==
    << Problem("A", <<500>>, {"math"}, <<1>>, "A"),
       Problem("B", <<500>>, {"dp"}, <<2>>, "B"),
       Problem("A", <<500>>, {"math", "*special"}, <<3>>, "C"),
       Problem("B", <<500>>, {}, <<>>, "D"),
       Problem("A", <<0>>, {"greedy"}, <<4>>, "A"),
       Problem("B", <<>>, {"dp"}, <<5>>, "E"),
       Problem("A", <<500>>, {"math"}, <<6>>, "C") >>

\* the problem set is any run of consecutive problems of the catalogue
ProblemLists ==
    {SubSeq(Catalogue, a, b) : a \in 1..(Len(Catalogue) + 1), b \in 0..Len(Catalogue)}

GitgudFailures == {NoneJson, FailedJson(<<"limit">>)}

ProblemsResponses ==
    GitgudFailures \cup {OkJson([problems |-> l, problemStatistics |-> <<>>]) : l \in ProblemLists}

UserRatings == {<<>>, <<20>>, <<549>>, <<1650>>}

UserInfoResponses(handle) ==
    GitgudFailures \cup {OkJson(<<[handle |-> handle, rating |-> r]>>) : r \in UserRatings}

GitgudStatusResponses ==
    GitgudFailures \cup {OkJson(l) : l \in SeqsUpTo(Submissions, MaxSubs)}

StandingsResponses(contestid) ==
    GitgudFailures
    \cup {OkJson([contest |-> [id |-> contestid, name |-> <<"Codeforces Round ", contestid>>]])}

\* a dict as a function: d[k] = v and d.pop(k, None)
DictSet(d, k, v) == [x \in (DOMAIN d) \cup {k} |-> IF x = k THEN v ELSE d[x]]

DictPop(d, k) == [x \in (DOMAIN d) \ {k} |-> d[x]]

\* lines 53-62, after the first k problems
RECURSIVE Recommend(_, _, _)
Recommend(problems, user_rating, k) ==
    IF k = 0 THEN <<>>
    ELSE LET d == Recommend(problems, user_rating, k - 1)
             problem == problems[k]
         IN  IF /\ "*special" \notin problem.tags
                /\ problem.rating = <<user_rating>>
                /\ problem.contestId # <<>>
             THEN DictSet(d, <<problem.name, problem.rating[1]>>,
                          <<problem.contestId[1], problem.index>>)
             ELSE d

RECURSIVE RemoveSolved_any_verdict(_, _, _)
RemoveSolved_any_verdict(d, subs, k) ==
    IF k = 0 THEN d
    ELSE LET rest == RemoveSolved_any_verdict(d, subs, k - 1)
             problem == subs[k].problem
         IN  IF problem.rating # <<>>
             THEN DictPop(rest, <<problem.name, problem.rating[1]>>)
             ELSE rest

\* lines 64-69, after the first k submissions
RECURSIVE RemoveSolved(_, _, _)
RemoveSolved(d, subs, k) ==
    IF k = 0 THEN d
    ELSE LET rest == RemoveSolved(d, subs, k - 1)
             problem == subs[k].problem
         IN  IF subs[k].verdict = "OK" /\ problem.rating # <<>>
             THEN DictPop(rest, <<problem.name, problem.rating[1]>>)
             ELSE rest

TooGudMessage(handle) == Text(<<handle, " is already too gud">>)

\* lines 83-88
RecommendationMessage(handle, name, rating, contestid, index, contestname) ==
    EmbedMessage(<<"Recommended problem for ", Backquoted(handle)>>,
                 [title |-> <<index, ". ", name>>,
                  url |-> <<CNT_BASE_URL, contestid, "/problem/", index>>,
                  description |-> <<contestname, "\nRating: ", rating>>])

\* line 43: up to the first await
gitgud_begin(t) ==
    /\ cmd[t] = "gitgud"
    /\ pc[t] = "start"
    /\ reqs' = [reqs EXCEPT ![t] = Append(@, Request("problemset.problems", <<>>))]
    /\ pc' = [pc EXCEPT ![t] = "await_problems"]
    /\ UNCHANGED <<cmd, handles, respjson, rate, allratings, probjson, infojson,
                   subsjson, recommendations, choice, plt, sent, pin, pout>>

\* lines 43-44
gitgud_problems(t) ==
    /\ cmd[t] = "gitgud"
    /\ pc[t] = "await_problems"
    /\ \E json \in ProblemsResponses : probjson' = [probjson EXCEPT ![t] = json]
    /\ reqs' = [reqs EXCEPT ![t] =
            Append(@, Request("user.info", [handles |-> handles[t][1]]))]
    /\ pc' = [pc EXCEPT ![t] = "await_user_info"]
    /\ UNCHANGED <<cmd, handles, respjson, rate, allratings, infojson,
                   subsjson, recommendations, choice, plt, sent, pin, pout>>

\* lines 44-45
gitgud_info(t) ==
    /\ cmd[t] = "gitgud"
    /\ pc[t] = "await_user_info"
    /\ \E json \in UserInfoResponses(handles[t][1]) :
          infojson' = [infojson EXCEPT ![t] = json]
    /\ reqs' = [reqs EXCEPT ![t] =
            Append(@, Request("user.status", [handle |-> handles[t][1]]))]
    /\ pc' = [pc EXCEPT ![t] = "await_user_status"]
    /\ UNCHANGED <<cmd, handles, respjson, rate, allratings, probjson,
                   subsjson, recommendations, choice, plt, sent, pin, pout>>

\* lines 45-82: the three responses are read only now
gitgud_status(t) ==
    /\ cmd[t] = "gitgud"
    /\ pc[t] = "await_user_status"
    /\ \E json \in GitgudStatusResponses :
        /\ subsjson' = [subsjson EXCEPT ![t] = json]
        /\ IF ~HasResult(infojson[t]) \/ ~HasResult(probjson[t])
           THEN \* lines 47, 52: subscripting None, or no 'result' key
                /\ Raise(t)
                /\ UNCHANGED <<recommendations, choice, reqs>>
           ELSE LET user_rating == UserBucket(infojson[t])
                    problems == probjson[t].result.problems
                    candidates == Recommend(problems, user_rating, Len(problems))
                    left == RemoveSolved(candidates, json.result, Len(json.result))
                IN  IF ~HasResult(json)
                    THEN \* line 64
                         /\ recommendations' = [recommendations EXCEPT ![t] = candidates]
                         /\ Raise(t)
                         /\ UNCHANGED <<choice, reqs>>
                    ELSE /\ recommendations' = [recommendations EXCEPT ![t] = left]
                         /\ IF DOMAIN left = {}
                            THEN /\ sent' = [sent EXCEPT ![t] =
                                        Append(@, TooGudMessage(handles[t][1]))]
                                 /\ pc' = [pc EXCEPT ![t] = "done"]
                                 /\ UNCHANGED <<choice, reqs>>
                            ELSE \E key \in DOMAIN left :
                                 /\ choice' = [choice EXCEPT ![t] = key]
                                 /\ reqs' = [reqs EXCEPT ![t] =
                                        Append(@, Request("contest.standings",
                                            [contestId |-> left[key][1],
                                             from |-> 1, count |-> 1]))]
                                 /\ pc' = [pc EXCEPT ![t] = "await_standings"]
                                 /\ UNCHANGED sent
    /\ UNCHANGED <<cmd, handles, respjson, rate, allratings, probjson, infojson,
                   plt, pin, pout>>

\* lines 82-88
gitgud_standings(t) ==
    /\ cmd[t] = "gitgud"
    /\ pc[t] = "await_standings"
    /\ LET name == choice[t][1]
           rating == choice[t][2]
           contestid == recommendations[t][choice[t]][1]
           index == recommendations[t][choice[t]][2]
       IN  \E contestjson \in StandingsResponses(contestid) :
            /\ respjson' = [respjson EXCEPT ![t] = contestjson]
            /\ IF ~HasResult(contestjson)
               THEN Raise(t)
               ELSE /\ sent' = [sent EXCEPT ![t] =
                        Append(@, RecommendationMessage(handles[t][1], name, rating,
                                    contestid, index, contestjson.result.contest.name))]
                    /\ pc' = [pc EXCEPT ![t] = "done"]
    /\ UNCHANGED <<cmd, handles, rate, allratings, probjson, infojson, subsjson,
                   recommendations, choice, plt, reqs, pin, pout>>

(***************************************************************************)
(* Specifications.                                                         *)
(***************************************************************************)
Locals ==
    /\ respjson = [t \in Tasks |-> Unbound]
    /\ rate = [t \in Tasks |-> <<>>]
    /\ allratings = [t \in Tasks |-> <<>>]
    /\ probjson = [t \in Tasks |-> Unbound]
    /\ infojson = [t \in Tasks |-> Unbound]
    /\ subsjson = [t \in Tasks |-> Unbound]
    /\ recommendations = [t \in Tasks |-> <<>>]
    /\ choice = [t \in Tasks |-> <<>>]
    /\ sent = [t \in Tasks |-> <<>>]
    /\ reqs = [t \in Tasks |-> <<>>]

\* gitgud takes one handle, rating and solved any number of them
Invocations ==
    ({"rating", "solved"} \X ArgLists)
    \cup ({"gitgud"} \X {HandleList(1, 0)})

\* one command is invoked on a bot that has drawn nothing yet; the other
\* tasks stay idle (SpecConc below runs commands side by side)
Init ==
    /\ \E inv \in Invocations :
          /\ cmd = [t \in Tasks |-> IF t = 1 THEN inv[1] ELSE "idle"]
          /\ handles = [t \in Tasks |-> IF t = 1 THEN inv[2] ELSE <<>>]
    /\ pc = [t \in Tasks |-> IF t = 1 THEN "start" ELSE "idle"]
    /\ Locals
    /\ plt = NoFigure
    /\ pin = <<>>
    /\ pout = <<>>

Next ==
    \E t \in Tasks :
        \/ rating_begin(t)
        \/ \E json \in UserRatingResponses : rating_resume(t, json)
        \/ solved_begin(t)
        \/ \E json \in UserStatusResponses : solved_resume(t, json)
        \/ gitgud_begin(t)
        \/ gitgud_problems(t)
        \/ gitgud_info(t)
        \/ gitgud_status(t)
        \/ gitgud_standings(t)

Spec == Init /\ [][Next]_vars

(***************************************************************************)
(* Commands running as interleaved tasks of the event loop: every task     *)
(* runs rating or solved; a task runs from one await to the next without   *)
(* interruption.                                                           *)
(***************************************************************************)
ConcArgLists == {HandleList(n, k) : n \in 1..2, k \in 0..1}

\* rated users only: every command of a run ends without a fault
ConcRatingResponses == {NoneJson} \cup {OkJson(h) : h \in RatingHistories \ {<<>>}}

ConcStatusResponses == {NoneJson} \cup {OkJson(l) : l \in SeqsUpTo(Submissions, 1)}

InitConc ==
    /\ cmd \in [Tasks -> {"rating", "solved"}]
    /\ handles \in [Tasks -> ConcArgLists]
    /\ pc = [t \in Tasks |-> "start"]
    /\ Locals
    /\ plt = NoFigure
    /\ pin = <<>>
    /\ pout = <<>>

NextConc ==
    \E t \in Tasks :
        \/ rating_begin(t)
        \/ \E json \in ConcRatingResponses : rating_resume(t, json)
        \/ solved_begin(t)
        \/ \E json \in ConcStatusResponses : solved_resume(t, json)

SpecConc == InitConc /\ [][NextConc]_vars

(***************************************************************************)
(* The pure computations, applied to every input of a range.               *)
(***************************************************************************)
NoTask ==
    /\ cmd = [t \in Tasks |-> "idle"]
    /\ handles = [t \in Tasks |-> <<>>]
    /\ pc = [t \in Tasks |-> "idle"]
    /\ Locals
    /\ plt = NoFigure

\* lines 47-51 on a user.info answer whose rating is pin (absent: unrated)
InitRound ==
    /\ NoTask
    /\ pin \in {<<>>} \cup {<<r>> : r \in (0 - MaxNegRating)..MaxRatingInput}
    /\ pout = <<>>

gitgud_bucket ==
    /\ pout = <<>>
    /\ pout' = <<UserBucket(OkJson(<<[handle |-> Roster[1], rating |-> pin]>>))>>
    /\ UNCHANGED <<taskvars, pin>>

SpecRound == InitRound /\ [][gitgud_bucket]_vars

\* lines 183-184 and the bins plt.hist puts a rating in
InitBins ==
    /\ NoTask
    /\ pin \in [nhandles : 1..5, rating : 400..MaxBinInput]
    /\ pout = <<>>

solved_bins ==
    /\ pout = <<>>
    /\ pout' = <<[bins |-> histbins(pin.nhandles),
                  into |-> BinsOf(histbins(pin.nhandles), pin.rating)]>>
    /\ UNCHANGED <<taskvars, pin>>

SpecBins == InitBins /\ [][solved_bins]_vars

(***************************************************************************)
(* Properties.                                                             *)
(***************************************************************************)
Plotting(t) == cmd[t] \in {"rating", "solved"}

Messages(t) == {sent[t][k] : k \in 1..Len(sent[t])}

Images(t) == {m \in Messages(t) : m.file # <<>>}

\* the handles of the requests of task t, in the order they were issued
Queried(t) == [k \in 1..Len(reqs[t]) |-> reqs[t][k].params.handle]

\* the handles whose responses the loop of task t has worked off
Processed(t) == IF cmd[t] = "rating" THEN Len(rate[t]) ELSE Len(allratings[t])

\* the requests of task t are for its first handles, each once and in order
QueriedInOrder(t) ==
    /\ Len(reqs[t]) <= Len(handles[t])
    /\ Queried(t) = SubSeq(handles[t], 1, Len(reqs[t]))

\* the nearest multiple of 100, a remainder of 50 going up
Nearest100(r) == ((r + 50) \div 100) * 100

\* C1: when the three fetches of gitgud succeed, "is already too gud" is the
\* reply exactly if no non-special problem with a contestId and the rating of
\* the user's bucket is left after taking away the (name, rating) pairs of
\* the user's accepted submissions; otherwise one such problem is chosen, it
\* is not one the user has solved, and it is the one recommended.
C1_Candidates(t) ==
    LET problems == probjson[t].result.problems
        user == infojson[t].result[1].rating
        bucket == IF user = <<>> THEN 500 ELSE Nearest100(user[1])
    IN  {<<problems[k].name, problems[k].rating[1]>> :
            k \in {j \in 1..Len(problems) :
                    /\ "*special" \notin problems[j].tags
                    /\ problems[j].contestId # <<>>
                    /\ problems[j].rating = <<bucket>>}}

C1_Solved(t) ==
    LET subs == subsjson[t].result
    IN  {<<subs[k].problem.name, subs[k].problem.rating[1]>> :
            k \in {j \in 1..Len(subs) :
                    subs[j].verdict = "OK" /\ subs[j].problem.rating # <<>>}}

C1_Recommendation ==
    \A t \in Tasks :
        (/\ cmd[t] = "gitgud"
         /\ HasResult(probjson[t]) /\ HasResult(infojson[t]) /\ HasResult(subsjson[t])
         /\ pc[t] = "done" \/ pc[t] = "await_standings")
        => LET set == C1_Candidates(t) \ C1_Solved(t)
               handle == handles[t][1]
           IN  /\ (TooGudMessage(handle) \in Messages(t)) <=> (set = {})
               /\ set = {} => sent[t] = <<TooGudMessage(handle)>> /\ choice[t] = <<>>
               /\ set # {} =>
                    /\ choice[t] \in set
                    /\ choice[t] \notin C1_Solved(t)
                    /\ pc[t] = "await_standings" => sent[t] = <<>>
                    /\ pc[t] = "done" =>
                         /\ Len(sent[t]) = 1
                         /\ sent[t][1].embed # <<>>
                         /\ sent[t][1].embed[1].title[3] = choice[t][1]
                         /\ sent[t][1].embed[1].description[3] = choice[t][2]

\* a recommendation was sent to a user who has solved one of the candidates
C1_Witness ==
    \E t \in Tasks :
        /\ cmd[t] = "gitgud"
        /\ pc[t] = "done"
        /\ Len(sent[t]) = 1
        /\ sent[t][1].embed # <<>>
        /\ C1_Candidates(t) \cap C1_Solved(t) # {}

\* C2: rating and solved with no handle or with six or more handles reply
\* "Number of handles must be between 1 and 5", request nothing from the API
\* and send no image; with one to five handles that reply is never sent.
C2_HandleCount ==
    \A t \in Tasks :
        (Plotting(t) /\ pc[t] # "start")
        => IF Len(handles[t]) = 0 \/ Len(handles[t]) >= 6
           THEN /\ sent[t] = <<HandleCountMessage>>
                /\ reqs[t] = <<>>
                /\ pc[t] = "done"
           ELSE HandleCountMessage \notin Messages(t)

C2_Witness ==
    \E t \in Tasks :
        /\ Plotting(t)
        /\ Len(handles[t]) >= 6
        /\ pc[t] = "done"
        /\ sent[t] = <<HandleCountMessage>>

\* C3: in rating and solved, a FAILED response ends the command with a single
\* reply: "Handle not found" naming the handle that was asked for if the
\* comment contains "not found", the denial message otherwise; no image is
\* sent and no later handle is queried.
C3_Failed ==
    \A t \in Tasks :
        (Plotting(t) /\ respjson[t].status = "FAILED")
        => /\ pc[t] = "done"
           /\ QueriedInOrder(t)
           /\ Len(reqs[t]) = Processed(t) + 1
           /\ Images(t) = {}
           /\ sent[t] = << IF Contains(respjson[t].comment, <<"not", "found">>)
                           THEN NotFoundMessage(handles[t][Len(reqs[t])])
                           ELSE DeniedMessage >>

\* the second of three or more handles is not found
C3_Witness ==
    \E t \in Tasks :
        /\ cmd[t] = "rating"
        /\ Len(handles[t]) >= 3
        /\ respjson[t].status = "FAILED"
        /\ Len(reqs[t]) = 2
        /\ sent[t] = <<NotFoundMessage(handles[t][2])>>

\* C6: in rating and solved, a null response ends the command with the reply
\* "Error connecting to Codeforces API": no image is sent, the request is not
\* repeated and the remaining handles are not queried.
C6_Null ==
    \A t \in Tasks :
        (Plotting(t) /\ IsNone(respjson[t]))
        => /\ pc[t] = "done"
           /\ QueriedInOrder(t)
           /\ Len(reqs[t]) = Processed(t) + 1
           /\ Images(t) = {}
           /\ sent[t] = <<ConnectionMessage>>

\* the connection fails on the second of three or more handles of solved
C6_Witness ==
    \E t \in Tasks :
        /\ cmd[t] = "solved"
        /\ Len(handles[t]) >= 3
        /\ IsNone(respjson[t])
        /\ Len(reqs[t]) = 2
        /\ sent[t] = <<ConnectionMessage>>

\* C10: in gitgud, a null among the answers to problemset.problems, user.info
\* and user.status does not stop the other requests: once the three have
\* returned the task has faulted, having issued exactly those three requests
\* in that order, sent nothing and not asked for contest.standings; and
\* contest.standings is requested at most once, as the fourth request, for
\* the contest of a recommendation drawn from a non-empty set.
C10_Paths(t) == [k \in 1..Len(reqs[t]) |-> reqs[t][k].url[2]]

C10_NullFaults ==
    \A t \in Tasks :
        cmd[t] = "gitgud"
        => /\ (IsNone(probjson[t]) \/ IsNone(infojson[t]) \/ IsNone(subsjson[t]))
              => /\ sent[t] = <<>>
                 /\ "contest.standings" \notin {C10_Paths(t)[k] : k \in 1..Len(reqs[t])}
                 /\ subsjson[t].status # "unbound"
                    => /\ pc[t] = "faulted"
                       /\ C10_Paths(t) = <<"problemset.problems", "user.info", "user.status">>
           /\ \A k \in 1..Len(reqs[t]) :
                C10_Paths(t)[k] = "contest.standings"
                => /\ k = 4
                   /\ choice[t] \in DOMAIN recommendations[t]
                   /\ reqs[t][k].params.contestId = recommendations[t][choice[t]][1]

\* the problem set could not be fetched, the other two could
C10_Witness ==
    \E t \in Tasks :
        /\ cmd[t] = "gitgud"
        /\ IsNone(probjson[t])
        /\ HasResult(infojson[t])
        /\ HasResult(subsjson[t])
        /\ pc[t] = "faulted"
        /\ Len(reqs[t]) = 3

\* C7: round_rating gives the nearest multiple of 100, a remainder of 50
\* going up: a multiple of 100 at most 50 away from the rating, the rating
\* less its remainder, plus 100 if the remainder is 50 or more; 149 gives 100,
\* 150 gives 200, 1649 gives 1600, 1650 gives 1700, 0 gives 0; and a user
\* without a rating is in bucket 500.
C7_RoundRating ==
    pout # <<>>
    => IF pin = <<>> THEN pout = <<500>>
       ELSE LET r == pin[1]
                out == pout[1]
            IN  /\ out % 100 = 0
                /\ out - r <= 50
                /\ r - out <= 50
                /\ out = (IF r % 100 >= 50 THEN r - (r % 100) + 100 ELSE r - (r % 100))
                /\ r = 149 => out = 100
                /\ r = 150 => out = 200
                /\ r = 1649 => out = 1600
                /\ r = 1650 => out = 1700
                /\ r = 0 => out = 0

C7_Witness == pin = <<1650>> /\ pout = <<1700>>

\* C8: the bin edges of solved start at 500, step by 100 for one handle and
\* by 200 for two to five, and end at 3800 or above, so that every rating
\* from 500 to 3800 falls into a bin.
C8_Bins ==
    pout # <<>>
    => LET bins == pout[1].bins
           step == IF pin.nhandles = 1 THEN 100 ELSE 200
       IN  /\ bins[1] = 500
           /\ \A k \in 1..(Len(bins) - 1) : bins[k + 1] - bins[k] = step
           /\ bins[Len(bins)] >= 3800
           /\ (pin.rating >= 500 /\ pin.rating <= 3800) => pout[1].into # {}

\* with two handles, rating 3800 has its bin
C8_Witness ==
    /\ pin.nhandles = 2
    /\ pin.rating = 3800
    /\ pout # <<>>
    /\ pout[1].into # {}

\* C4: the chart a command sends holds the series of its own handles and
\* nothing else, whatever other commands run in between: a chart of rating
\* has one line per handle, ending at the rating the command has read for
\* it, and no histogram; a chart of solved has the histogram of the
\* command's own ratings and no line.
C4_OwnChart ==
    \A t \in Tasks : \A m \in Images(t) :
        LET image == m.file[1].image
        IN  IF cmd[t] = "rating"
            THEN /\ image.hist = <<>>
                 /\ Len(image.lines) = Len(handles[t])
                 /\ \A k \in 1..Len(image.lines) :
                        /\ image.lines[k].y # <<>>
                        /\ k <= Len(rate[t])
                        /\ Last(image.lines[k].y) = rate[t][k]
            ELSE /\ image.lines = <<>>
                 /\ image.hist # <<>>
                 /\ image.hist[1].x = allratings[t]

\* C5: a rating command with one to five handles whose responses all have
\* status OK ends with exactly one image sent, with a line per handle and a
\* label per handle showing the handle and the last newRating of its history.
C5_ImageSent ==
    \A t \in Tasks :
        (/\ cmd[t] = "rating"
         /\ Len(handles[t]) >= 1 /\ Len(handles[t]) <= 5
         /\ pc[t] \in {"done", "faulted"}
         /\ respjson[t].status = "OK")
        => /\ pc[t] = "done"
           /\ Len(sent[t]) = 1
           /\ sent[t][1].file # <<>>
           /\ LET image == sent[t][1].file[1].image
              IN  /\ Len(image.lines) = Len(handles[t])
                  /\ Len(image.legend) = Len(handles[t])
                  /\ \A k \in 1..Len(image.legend) :
                        /\ image.lines[k].y # <<>>
                        /\ image.legend[k] =
                             <<zero_width_space, handles[t][k], " (",
                               Last(image.lines[k].y), ")">>

\* C9: in the chart of solved the k-th series and label belong to the k-th
\* handle, and the count in the label is the number of distinct (name,
\* rating) pairs of that handle's accepted submissions that have a rating
\* (here for the last handle, whose response the task still holds).
C9_Pairs(subs) ==
    {<<subs[k].problem.name, subs[k].problem.rating>> :
        k \in {j \in 1..Len(subs) :
                subs[j].verdict = "OK" /\ subs[j].problem.rating # <<>>}}

C9_SolvedCount ==
    \A t \in Tasks :
        (cmd[t] = "solved" /\ pc[t] = "done" /\ respjson[t].status = "OK")
        => /\ Len(sent[t]) = 1
           /\ sent[t][1].file # <<>>
           /\ LET image == sent[t][1].file[1].image
                  n == Len(handles[t])
              IN  /\ image.hist # <<>>
                  /\ Len(image.hist[1].x) = n
                  /\ Len(image.legend) = n
                  /\ \A k \in 1..n :
                        image.legend[k] =
                            <<zero_width_space, handles[t][k], ": ",
                              BagCardinality(image.hist[1].x[k])>>
                  /\ BagCardinality(image.hist[1].x[n])
                        = Cardinality(C9_Pairs(respjson[t].result))

====
